---- MODULE Spec2Model ----
(***************************************************************************)
(* Model of obsidian_to_influx (src/src/main.rs): one process invocation   *)
(* resolves a starting date from InfluxDB, walks the notes directory,      *)
(* keeps the daily notes dated in (starting_date, yesterday], and pushes   *)
(* one point per frontmatter tag containing '#'.  Several invocations may  *)
(* follow each other; the sink and the vault persist between them.         *)
(*                                                                         *)
(* Dates are days since 1970-01-01.  An instant is [day, secs, nano]: the  *)
(* date, the seconds since midnight and the nanosecond fraction, as in     *)
(* chrono's NaiveDate + NaiveTime.                                         *)
(***************************************************************************)
EXTENDS Integers, Sequences, FiniteSets, TLC

\* ---------------------------------------------------------------- bounds
MaxDay == 3          \* file dates and the clock range over days 1..MaxDay
MaxFiles == 2        \* files and directories below the notes directory
MaxTags == 2         \* tags in the frontmatter of all files together

\* ------------------------------------------------------- text of a date
\* "%Y-%m-%d" text of day d (days since the epoch), d = 0 first.
DateTexts ==
  <<"1970-01-01", "1970-01-02", "1970-01-03", "1970-01-04", "1970-01-05",
    "1970-01-06", "1970-01-07", "1970-01-08">>

Days == 0..(Len(DateTexts) - 1)

DateText(d) == DateTexts[d + 1]

\* chrono Weekday::to_string of day d; 1970-01-01 was a Thursday.
WeekdayNames == <<"Thu", "Fri", "Sat", "Sun", "Mon", "Tue", "Wed">>

weekday(d) == WeekdayNames[(d % 7) + 1]

\* ------------------------------------------------------------- instants
UNIX_EPOCH == [day |-> 0, secs |-> 0, nano |-> 0]

\* NaiveTime::from_num_seconds_from_midnight(secs, nano)
from_num_seconds_from_midnight(secs, nano) == [secs |-> secs, nano |-> nano]

\* Date::and_time
and_time(date, t) == [day |-> date, secs |-> t.secs, nano |-> t.nano]

\* DateTime::date
date_of(instant) == instant.day

\* Ord on DateTime<Utc>
InstantLT(a, b) ==
  \/ a.day < b.day
  \/ a.day = b.day /\ a.secs < b.secs
  \/ a.day = b.day /\ a.secs = b.secs /\ a.nano < b.nano

\* ------------------------------------------------------------ file names
\* A file name is a sequence of text pieces; "." is the dot character.
Dot == "."

\* Path::file_stem: the whole name when it has no dot or when its only dot
\* is the leading one, else the part before the last dot.
LastDot(name) ==
  IF \E i \in 1..Len(name) : name[i] = Dot
  THEN CHOOSE i \in 1..Len(name) :
         name[i] = Dot /\ \A j \in (i + 1)..Len(name) : name[j] # Dot
  ELSE 0

file_stem(name) ==
  IF LastDot(name) <= 1 THEN name ELSE SubSeq(name, 1, LastDot(name) - 1)

\* NaiveDate::parse_from_str(file_name, "%Y-%m-%d") wrapped in Date<Utc>.
date_from_file_name(file_name) ==
  IF Len(file_name) = 1 /\ \E d \in Days : DateText(d) = file_name[1]
  THEN [ok |-> TRUE,
        date |-> CHOOSE d \in Days : DateText(d) = file_name[1]]
  ELSE [ok |-> FALSE, date |-> 0]

\* ------------------------------------------------------------------ tags
Marker == "#"

TagWork == <<"#", "w">>
TagMisc == <<"m">>
Tags == {TagWork, TagMisc}

\* tag.contains("#")
contains(tag, c) == \E i \in 1..Len(tag) : tag[i] = c

SeqsUpTo(S, n) == UNION {[1..k -> S] : k \in 0..n}

TagLists == SeqsUpTo(Tags, MaxTags)

\* What reading one file gives: unreadable or without frontmatter
\* (ok = FALSE), or the tags of its frontmatter.
Contents ==
  {[read |-> TRUE, ok |-> FALSE, tags |-> <<>>]}
    \cup {[read |-> TRUE, ok |-> TRUE, tags |-> t] : t \in TagLists}

Unread == [read |-> FALSE, ok |-> FALSE, tags |-> <<>>]

\* ----------------------------------------------------------------- vault
\* The files a vault may hold.  In the notes directory itself: a daily note
\* for each day, a dated file that is no markdown file, and a hidden dated
\* file.  In a subdirectory: a daily note.
RootFileNames ==
  [d \in 1..MaxDay |-> <<DateText(d), Dot, "md">>]
    \o << <<DateText(2), Dot, "txt">>, <<Dot, DateText(2), Dot, "md">> >>

SubFileNames == << <<DateText(2), Dot, "md">> >>

\* The subdirectories a vault may hold: a plain one, a hidden one, and one
\* that cannot be read.
DirNames == << <<"a">>, <<Dot, "trash">>, <<"locked">> >>

LockedDir == Len(DirNames)

\* An item is <<0, i>>, the i-th root file, <<k, i>>, the i-th file of
\* directory k, or <<LockedDir, 0>>, the unreadable directory.
Items ==
  {<<0, i>> : i \in 1..Len(RootFileNames)}
    \cup {<<k, i>> : k \in 1..2, i \in 1..Len(SubFileNames)}
    \cup {<<LockedDir, 0>>}

FileEntry(n) ==
  [name |-> n, isDir |-> FALSE, readable |-> TRUE, children |-> <<>>]

\* The entries of directory k (0 the root) chosen by S, in listing order.
FilesOf(k, names, S) ==
  LET chosen == SelectSeq([i \in 1..Len(names) |-> i],
                          LAMBDA i : <<k, i>> \in S)
  IN [j \in 1..Len(chosen) |-> FileEntry(names[chosen[j]])]

DirsOf(S) ==
  LET present == SelectSeq([k \in 1..Len(DirNames) |-> k],
                           LAMBDA k : \E it \in S : it[1] = k)
  IN [j \in 1..Len(present) |->
        [name |-> DirNames[present[j]], isDir |-> TRUE,
         readable |-> present[j] # LockedDir,
         children |-> FilesOf(present[j], SubFileNames, S)]]

RootName == <<"notes">>

BuildVault(S) ==
  [name |-> RootName, isDir |-> TRUE, readable |-> TRUE,
   children |-> FilesOf(0, RootFileNames, S) \o DirsOf(S)]

\* Every vault of at most MaxFiles items, and the notes directory that
\* cannot be read.
Vaults ==
  {BuildVault(S) : S \in {T \in SUBSET Items : Cardinality(T) <= MaxFiles}}
    \cup {[name |-> RootName, isDir |-> TRUE, readable |-> FALSE,
           children |-> <<>>]}

\* Paths of the files of a vault: <<i>> in the root, <<i, j>> in a
\* subdirectory.
FilePaths(v) ==
  {<<i>> : i \in {k \in 1..Len(v.children) : ~v.children[k].isDir}}
    \cup UNION {{<<i, j>> : j \in 1..Len(v.children[i].children)} :
                  i \in {k \in 1..Len(v.children) : v.children[k].isDir}}

EntryAt(v, p) ==
  IF Len(p) = 1 THEN v.children[p[1]] ELSE v.children[p[1]].children[p[2]]

\* Names of the path's components below the root.
Components(v, p) == [k \in 1..Len(p) |-> EntryAt(v, SubSeq(p, 1, k)).name]

\* ------------------------------------------------------------------ sink
DbEntry(time, tag) ==
  [time |-> time, weekday |-> weekday(date_of(time)),
   frontmatter_tag |-> tag, value |-> 1]

InitSinks ==
  {{}, {DbEntry(and_time(1, from_num_seconds_from_midnight(0, 0)), TagWork)}}

\* "SELECT * FROM db ORDER BY time DESC LIMIT 1": one series holding the
\* latest row, or, for an empty measurement, no series or a series without
\* rows.
Latest(s) ==
  CHOOSE e \in s : \A o \in s : ~InstantLT(e.time, o.time)

QueryResponses(s) ==
  IF s = {}
  THEN {[series |-> <<>>], [series |-> <<[values |-> <<>>]>>]}
  ELSE {[series |-> <<[values |-> <<Latest(s)>>]>>]}

\* ----------------------------------------------------------------- state
VARIABLES
  vault,             \* the notes directory tree (VAULT_PATH/NOTES_DIR)
  content,           \* what reading each file gives, fixed once observed
  today,             \* Utc::today()
  sink,              \* the points stored in InfluxDB
  pc,                \* "resolve", "walk", "map" or "done"
  rerun,             \* an earlier invocation has ended
  starting_instant,  \* value returned by get_starting_date
  starting_date,     \* main's starting_date
  stack,             \* active calls of get_notes_from_dir
  notes,             \* add_notes_data's sorted notes
  noteIdx,           \* the note the outer loop of add_notes_data is at
  tagIdx,            \* the tag the inner loop of add_notes_data is at
  count,             \* add_notes_data's count
  exit_code,         \* status passed to std::process::exit
  queryOutcome,      \* "ok" once this run's query has given a response
  sinkAtStart,       \* the sink when this run began
  judged,            \* values of yesterday used by this run's comparisons
  submitted,         \* entries handed to client.query by this run
  writeFailed,       \* some client.query of this run returned Err
  ticked,            \* the clock changed date since this run began
  prevQuiet          \* the previous run saw no write fail and one date

vars ==
  <<vault, content, today, sink, pc, rerun, starting_instant, starting_date,
    stack, notes, noteIdx, tagIdx, count, exit_code, queryOutcome,
    sinkAtStart, judged, submitted, writeFailed, ticked, prevQuiet>>

progVars ==
  <<starting_instant, starting_date, stack, notes, noteIdx, tagIdx, count,
    exit_code>>

histVars ==
  <<queryOutcome, sinkAtStart, judged, submitted, writeFailed, ticked,
    prevQuiet>>

\* The run has not queried yet, or the query ended in Err.
QueryErr == "error"

QueryOk == queryOutcome = "ok"

EXIT_OK == "OK"
RUNNING == "running"

\* ---------------------------------------------------------- pure helpers
\* Variant: the row of the response is ignored.
get_starting_date_from_query_result_epoch(db_entry) == UNIX_EPOCH

\* get_starting_date_from_query_result
get_starting_date_from_query_result(db_entry) ==
  IF Len(db_entry.series) = 0
  THEN UNIX_EPOCH
  ELSE IF Len(db_entry.series[1].values) = 0
       THEN UNIX_EPOCH
       ELSE db_entry.series[1].values[1].time

\* Variant: today is taken for yesterday.
pred_opt_today(d) == d

\* Utc::today().pred_opt(); the clock never shows the least date, so the
\* None branch is not taken.
pred_opt(d) == d - 1

\* Variant: the lower bound of the window is inclusive.
InWindow_ge(file_date, start, yesterday) ==
  file_date >= start /\ file_date <= yesterday

\* Variant: the lower bound of the window is not tested.
InWindow_noLower(file_date, start, yesterday) == file_date <= yesterday

\* the condition of line 178
InWindow(file_date, start, yesterday) ==
  file_date > start /\ file_date <= yesterday

\* Variant: every entry of a note is stamped at midnight.
MakeEntry_noCount(date, cnt, tag) ==
  DbEntry(and_time(date, from_num_seconds_from_midnight(0, 0)), tag)

\* the DbEntry built at lines 210-218
MakeEntry(date, cnt, tag) ==
  DbEntry(and_time(date, from_num_seconds_from_midnight(0, cnt)), tag)

\* the test of line 209
Taggable(tag) == contains(tag, Marker)

\* notes.sort_by(|a, b| a.date.cmp(&b.date)): a stable sort
RECURSIVE InsertByDate(_, _)
InsertByDate(sorted, n) ==
  IF sorted = <<>>
  THEN <<n>>
  ELSE IF sorted[Len(sorted)].date <= n.date
       THEN Append(sorted, n)
       ELSE Append(InsertByDate(SubSeq(sorted, 1, Len(sorted) - 1), n),
                   sorted[Len(sorted)])

RECURSIVE SortByDate(_)
SortByDate(s) ==
  IF s = <<>>
  THEN <<>>
  ELSE InsertByDate(SortByDate(SubSeq(s, 1, Len(s) - 1)), s[Len(s)])

\* The number of tags in the files read so far.
RECURSIVE SumTags(_, _)
SumTags(c, ps) ==
  IF ps = {}
  THEN 0
  ELSE LET p == CHOOSE q \in ps : TRUE
       IN Len(c[p].tags) + SumTags(c, ps \ {p})

TagsSeen(c) == SumTags(c, DOMAIN c)

\* fs::read_dir of a directory entry: its entries, or none when it fails
\* (lines 133-139).
read_dir(dir) == IF dir.readable THEN dir.children ELSE <<>>

\* A call of get_notes_from_dir on the directory at path (<<>> the notes
\* directory itself): its position in the listing and its notes so far.
Frame(path) == [path |-> path, i |-> 1, notes |-> <<>>]

DirAt(v, path) == IF path = <<>> THEN v ELSE EntryAt(v, path)

\* ------------------------------------------------------------------ init
Init ==
  /\ vault \in Vaults
  /\ content = [p \in FilePaths(vault) |-> Unread]
  /\ today \in (MaxDay - 1)..MaxDay
  /\ sink \in InitSinks
  /\ pc = "resolve"
  /\ rerun = FALSE
  /\ starting_instant = UNIX_EPOCH
  /\ starting_date = 0
  /\ stack = <<>>
  /\ notes = <<>>
  /\ noteIdx = 1
  /\ tagIdx = 1
  /\ count = 0
  /\ exit_code = RUNNING
  /\ queryOutcome = QueryErr
  /\ sinkAtStart = sink
  /\ judged = {}
  /\ submitted = <<>>
  /\ writeFailed = FALSE
  /\ ticked = FALSE
  /\ prevQuiet = FALSE

\* --------------------------------------------------------------- actions
\* main, lines 254-258 up to the call of get_notes_from_dir: the query of
\* get_starting_date ends in Err (json_query or deserialize_next failed) or
\* in a response.
get_starting_date ==
  /\ pc = "resolve"
  /\ \/ /\ queryOutcome' = QueryErr
        /\ starting_instant' = UNIX_EPOCH
     \/ \E ret \in QueryResponses(sink) :
          /\ queryOutcome' = "ok"
          /\ starting_instant' = get_starting_date_from_query_result(ret)
  /\ starting_date' = date_of(starting_instant')
  /\ stack' = <<Frame(<<>>)>>
  /\ pc' = "walk"
  /\ UNCHANGED <<vault, content, today, sink, rerun, notes, noteIdx, tagIdx,
                 count, exit_code, sinkAtStart, judged, submitted,
                 writeFailed, ticked, prevQuiet>>

Top == stack[Len(stack)]

\* The listing the innermost call iterates over.
Entries == read_dir(DirAt(vault, Top.path))

SetTop(f) == [stack EXCEPT ![Len(stack)] = f]

\* get_notes_from_dir, lines 143-149: the entry is a directory.
VisitDir ==
  /\ pc = "walk"
  /\ Top.i <= Len(Entries)
  /\ Entries[Top.i].isDir
  /\ stack' = Append(stack, Frame(Append(Top.path, Top.i)))
  /\ UNCHANGED <<vault, content, today, sink, pc, rerun, starting_instant,
                 starting_date, notes, noteIdx, tagIdx, count, exit_code>>
  /\ UNCHANGED histVars

\* get_notes_from_dir, lines 151-187: the entry is a file.
VisitFile ==
  /\ pc = "walk"
  /\ Top.i <= Len(Entries)
  /\ ~Entries[Top.i].isDir
  /\ LET entry_path == Append(Top.path, Top.i)
         parsed == date_from_file_name(file_stem(Entries[Top.i].name))
         yesterday == pred_opt(today)
     IN IF ~parsed.ok
        THEN /\ stack' = SetTop([Top EXCEPT !.i = @ + 1])
             /\ UNCHANGED <<content, judged>>
        ELSE /\ judged' = judged \cup {yesterday}
             /\ IF InWindow(parsed.date, starting_date, yesterday)
                THEN \E c \in Contents :
                       /\ IF content[entry_path].read
                          THEN c = content[entry_path]
                          ELSE Len(c.tags) + TagsSeen(content) <= MaxTags
                       /\ content' = [content EXCEPT ![entry_path] = c]
                       /\ stack' =
                            SetTop([Top EXCEPT
                              !.i = @ + 1,
                              !.notes =
                                IF c.ok
                                THEN Append(@, [path |-> entry_path,
                                                frontmatter |->
                                                  [tags |-> c.tags],
                                                date |-> parsed.date])
                                ELSE @])
                ELSE /\ stack' = SetTop([Top EXCEPT !.i = @ + 1])
                     /\ UNCHANGED content
  /\ UNCHANGED <<vault, today, sink, pc, rerun, starting_instant,
                 starting_date, notes, noteIdx, tagIdx, count, exit_code,
                 queryOutcome, sinkAtStart, submitted, writeFailed, ticked, prevQuiet>>

\* get_notes_from_dir, lines 147 and 190: a recursive call returns and its
\* notes are appended to the caller's.
ReturnDir ==
  /\ pc = "walk"
  /\ Len(stack) > 1
  /\ Top.i > Len(Entries)
  /\ LET callee == Top
         caller == stack[Len(stack) - 1]
     IN stack' =
          Append(SubSeq(stack, 1, Len(stack) - 2),
                 [caller EXCEPT !.i = @ + 1, !.notes = @ \o callee.notes])
  /\ UNCHANGED <<vault, content, today, sink, pc, rerun, starting_instant,
                 starting_date, notes, noteIdx, tagIdx, count, exit_code>>
  /\ UNCHANGED histVars

\* The loops of add_notes_data, lines 205-208: the first tag at or after
\* tag ti of note ni, in the order the loops visit them; past the last note
\* when there is none.
RECURSIVE NextPos(_, _, _)
NextPos(ns, ni, ti) ==
  IF ni > Len(ns)
  THEN [note |-> ni, tag |-> 1]
  ELSE IF ti <= Len(ns[ni].frontmatter.tags)
       THEN [note |-> ni, tag |-> ti]
       ELSE NextPos(ns, ni + 1, 1)

\* add_notes_data, lines 199-208: the outermost call returns, the notes are
\* sorted by date and the loops reach their first tag.
ReturnRoot ==
  /\ pc = "walk"
  /\ Len(stack) = 1
  /\ Top.i > Len(Entries)
  /\ notes' = SortByDate(Top.notes)
  /\ stack' = <<>>
  /\ noteIdx' = NextPos(notes', 1, 1).note
  /\ tagIdx' = NextPos(notes', 1, 1).tag
  /\ count' = 0
  /\ pc' = "map"
  /\ UNCHANGED <<vault, content, today, sink, rerun, starting_instant,
                 starting_date, exit_code>>
  /\ UNCHANGED histVars

CurTags == notes[noteIdx].frontmatter.tags

\* add_notes_data, lines 205-208: the loops go on to the next tag; count
\* starts again at 0 with each note.
Advance(cnt) ==
  LET pos == NextPos(notes, noteIdx, tagIdx + 1)
  IN /\ noteIdx' = pos.note
     /\ tagIdx' = pos.tag
     /\ count' = IF pos.note = noteIdx THEN cnt ELSE 0

\* add_notes_data, lines 208-230: a tag containing '#' is pushed; the
\* write succeeds or fails and the loop goes on either way.
PushTag ==
  /\ pc = "map"
  /\ noteIdx <= Len(notes)
  /\ Taggable(CurTags[tagIdx])
  /\ LET entry == MakeEntry(notes[noteIdx].date, count, CurTags[tagIdx])
     IN /\ submitted' = Append(submitted, [note |-> noteIdx, entry |-> entry])
        /\ \E ok \in BOOLEAN :
             /\ sink' = IF ok THEN sink \cup {entry} ELSE sink
             /\ writeFailed' = (writeFailed \/ ~ok)
  /\ Advance(count + 1)
  /\ UNCHANGED <<vault, content, today, pc, rerun, starting_instant,
                 starting_date, stack, notes, exit_code,
                 queryOutcome, sinkAtStart, judged, ticked, prevQuiet>>

\* add_notes_data, lines 208-209: a tag without '#' is passed over.
SkipTag ==
  /\ pc = "map"
  /\ noteIdx <= Len(notes)
  /\ ~Taggable(CurTags[tagIdx])
  /\ Advance(count)
  /\ UNCHANGED <<vault, content, today, sink, pc, rerun, starting_instant,
                 starting_date, stack, notes, exit_code>>
  /\ UNCHANGED histVars

\* add_notes_data, lines 234-236, and main, line 258.
Finish ==
  /\ pc = "map"
  /\ noteIdx > Len(notes)
  /\ exit_code' = EXIT_OK
  /\ pc' = "done"
  /\ UNCHANGED <<vault, content, today, sink, rerun, starting_instant,
                 starting_date, stack, notes, noteIdx, tagIdx, count>>
  /\ UNCHANGED histVars

\* The program is started again; the vault and the sink are as left.
Restart ==
  /\ pc = "done"
  /\ rerun' = TRUE
  /\ pc' = "resolve"
  /\ starting_instant' = UNIX_EPOCH
  /\ starting_date' = 0
  /\ stack' = <<>>
  /\ notes' = <<>>
  /\ noteIdx' = 1
  /\ tagIdx' = 1
  /\ count' = 0
  /\ exit_code' = RUNNING
  /\ queryOutcome' = QueryErr
  /\ sinkAtStart' = sink
  /\ judged' = {}
  /\ submitted' = <<>>
  /\ writeFailed' = FALSE
  /\ ticked' = FALSE
  /\ prevQuiet' = (~ticked /\ ~writeFailed)
  /\ UNCHANGED <<vault, content, today, sink>>

\* Midnight UTC passes.
ClockTick ==
  /\ today < MaxDay
  /\ today' = today + 1
  /\ ticked' = TRUE
  /\ UNCHANGED <<vault, content, sink, pc, rerun, queryOutcome, sinkAtStart,
                 judged, submitted, writeFailed, prevQuiet>>
  /\ UNCHANGED progVars

Next ==
  \/ get_starting_date
  \/ VisitDir
  \/ VisitFile
  \/ ReturnDir
  \/ ReturnRoot
  \/ PushTag
  \/ SkipTag
  \/ Finish
  \/ Restart
  \/ ClockTick

Spec == Init /\ [][Next]_vars

TypeOK ==
  /\ pc \in {"resolve", "walk", "map", "done"}
  /\ rerun \in BOOLEAN
  /\ today \in 2..MaxDay
  /\ exit_code \in {RUNNING, EXIT_OK}

\* ---------------------------------------------------------------- claims
\* The notes discovery has returned so far in this run: those collected by
\* the active calls of get_notes_from_dir, then add_notes_data's notes.
RECURSIVE StackNotes(_)
StackNotes(k) == IF k = 0 THEN <<>> ELSE StackNotes(k - 1) \o stack[k].notes

Discovered == IF pc = "walk" THEN StackNotes(Len(stack)) ELSE notes

ParsedDate(p) == date_from_file_name(file_stem(EntryAt(vault, p).name))

\* C1: every note discovery returns is dated after the starting date and
\* no later than yesterday, the current UTC date minus one day.
C1_WindowRespected ==
  \A k \in 1..Len(Discovered) :
    starting_date < Discovered[k].date /\ Discovered[k].date <= today - 1

\* A note was returned while another dated file was left out by the window.
C1_Witness ==
  /\ pc = "map"
  /\ notes # <<>>
  /\ \E p \in FilePaths(vault) :
       /\ ParsedDate(p).ok
       /\ ParsedDate(p).date <= starting_date \/ ParsedDate(p).date >= today

\* The tags of a note that contain the marker, in their order.
TaggableTags(n) ==
  SelectSeq(n.frontmatter.tags, LAMBDA t : \E i \in 1..Len(t) : t[i] = Marker)

\* The entries this run has submitted for its i-th note, in order.
RecordsOf(i) ==
  LET mine == SelectSeq(submitted, LAMBDA r : r.note = i)
  IN [k \in 1..Len(mine) |-> mine[k].entry]

MidnightPlusSeconds(d, k) == [day |-> d, secs |-> k, nano |-> 0]

MidnightPlusNanos(d, k) == [day |-> d, secs |-> 0, nano |-> k]

\* The i-th note gave one record per taggable tag, the k-th of them
\* (from 0) stamped at midnight of the note's date plus k seconds
\* (inSeconds) or plus k nanoseconds, labelled with the tag, value 1, and
\* the stamps differ pairwise.
OneRecordPerTaggableTag(i, inSeconds) ==
  LET tg == TaggableTags(notes[i])
      recs == RecordsOf(i)
  IN /\ Len(recs) = Len(tg)
     /\ \A k \in 1..Len(recs) :
          /\ recs[k].time =
               IF inSeconds
               THEN MidnightPlusSeconds(notes[i].date, k - 1)
               ELSE MidnightPlusNanos(notes[i].date, k - 1)
          /\ recs[k].frontmatter_tag = tg[k]
          /\ recs[k].value = 1
     /\ \A j, k \in 1..Len(recs) : j # k => recs[j].time # recs[k].time

C3_UniqueTimestamps ==
  \A j, k \in 1..Len(submitted) :
    j # k => submitted[j].entry.time # submitted[k].entry.time

\* The run follows a run whose writes all succeeded, on the same UTC date,
\* and its resolver query has succeeded.
QuietRerun ==
  /\ rerun
  /\ pc # "resolve"
  /\ QueryOk
  /\ prevQuiet
  /\ ~ticked

C5_WriteFailureFatal ==
  (pc = "done" /\ writeFailed) => exit_code # EXIT_OK

\* C6: a run that discovered notes and produced no record ends in failure;
\* a run that discovered no note ends in success without writing.
C6_EmptyExpansionFails ==
  pc = "done" =>
    /\ (notes # <<>> /\ submitted = <<>>) => exit_code # EXIT_OK
    /\ notes = <<>> => (exit_code = EXIT_OK /\ submitted = <<>>)

\* The latest instant among the points of s.
IsLatestOf(t, s) ==
  /\ \E e \in s : e.time = t
  /\ \A e \in s : ~InstantLT(t, e.time)

\* C7: the resolver yields the epoch when the query fails or the sink
\* holds no point (no series, or a series without rows, comes back), else
\* the timestamp of the latest point of the sink; the starting date is the
\* date of what it yields.
C7_ResolverFallback ==
  pc # "resolve" =>
    /\ (~QueryOk \/ sinkAtStart = {}) => starting_instant = UNIX_EPOCH
    /\ (QueryOk /\ sinkAtStart # {})
         => IsLatestOf(starting_instant, sinkAtStart)
    /\ starting_date = starting_instant.day

\* The resolver answered from a sink holding points of several instants.
C7_Witness ==
  /\ pc # "resolve"
  /\ QueryOk
  /\ \E e, f \in sinkAtStart : InstantLT(e.time, f.time)
  /\ starting_instant # UNIX_EPOCH

BeginsWithDot(name) == Len(name) >= 1 /\ name[1] = Dot

EndsWithMd(name) ==
  Len(name) >= 2 /\ name[Len(name) - 1] = Dot /\ name[Len(name)] = "md"

\* C8: no note is returned for a hidden entry, for a file beneath a hidden
\* directory, or for a file without the note suffix.
C8_HiddenAndSuffix ==
  \A k \in 1..Len(Discovered) :
    LET comps == Components(vault, Discovered[k].path)
    IN /\ \A c \in 1..Len(comps) : ~BeginsWithDot(comps[c])
       /\ EndsWithMd(comps[Len(comps)])

\* C9: all files of one run are compared against one value of yesterday.
C9_OneWindowPerRun == Cardinality(judged) <= 1

\* C10: when the resolver query succeeds, every record the run submits is
\* stamped strictly later than every point the sink held when the run began.
C10_WritesAfterSink ==
  QueryOk =>
    \A k \in 1..Len(submitted) :
      \A e \in sinkAtStart : InstantLT(e.time, submitted[k].entry.time)

\* A run whose query succeeded has submitted a record to a sink that held
\* points.
C10_Witness ==
  /\ QueryOk
  /\ sinkAtStart # {}
  /\ submitted # <<>>

====
